---- MODULE Spec2Model ----
(***************************************************************************)
(* FlyCast: the tiered ride-cost estimator of src/src/rideshare.py         *)
(* (mapping-service tier, heuristic-mileage tier, unavailable) and its     *)
(* file-based daily quota counter.                                         *)
(*                                                                         *)
(* Python's Optional values are sequences of length 0 (None) or 1.         *)
(* Money is in cents, speeds in hundredths of a mile per hour, so that the *)
(* fare formulas are exact integer arithmetic; round() is round-half-even  *)
(* on the exact value.                                                     *)
(***************************************************************************)
EXTENDS Integers, Sequences, FiniteSets, TLC

\* ------------------------------------------------------------------ bounds
\* MAX_GOOGLE_CALLS_PER_DAY is drawn from -1 .. MaxN.
MaxN == 2
\* Calendar days are 0 .. MaxDay.
MaxDay == 1
\* Ride requests started in one behaviour.
MaxRequests == 3
\* Direct canCall()/recordCall() operations in one behaviour of QuotaSpec.
MaxOps == 4
\* Hash seeds of a process are 0 .. MaxSeed.
MaxSeed == 1
\* Further process runs of the predictor on the same arguments.
MaxRuns == 1

\* ------------------------------------------------------- Python's Optional
None == << >>
Some(x) == << x >>
IsNone(o) == o = << >>
Val(o) == o[1]

Max(a, b) == IF a >= b THEN a ELSE b

\* round(): n/d (d > 0) to the nearest integer, ties to the even one.
RoundHalfEven(n, d) ==
    LET q == n \div d
        r == n % d
    IN  IF 2 * r < d THEN q
        ELSE IF 2 * r > d THEN q + 1
        ELSE IF q % 2 = 0 THEN q ELSE q + 1

\* --------------------------------------------------------- fare constants
FARE_BASE == 220
FARE_PER_MILE == 125
FARE_PER_MIN == 30
FARE_BOOKING == 255
AVG_SPEED_MPH == 28

\* AIRPORTS: the codes with known coordinates.
AIRPORTS == {"SAN", "KSAN"}

\* str.upper() on the airport codes the requests use.
Upper(s) ==
    CASE s = "san" -> "SAN"
      [] s = "ksan" -> "KSAN"
      [] s = "lax" -> "LAX"
      [] OTHER -> s

\* AIRPORTS.get((airport_code or "").upper()): TRUE iff coordinates exist.
airport_coords(code) == Upper(IF IsNone(code) THEN "" ELSE Val(code)) \in AIRPORTS

\* _speed_factor_for_hour with hour 6 counted into the morning peak.
speed_factor_peak_from_6(hour) ==
    IF hour \in {22, 23, 0, 1, 2, 3, 4, 5} THEN 115
    ELSE IF hour \in {6, 7, 8, 9, 16, 17, 18, 19} THEN 70
    ELSE IF hour \in {10, 11, 12, 13, 14, 15, 20, 21} THEN 90
    ELSE 100

\* _speed_factor_for_hour, in percent.
speed_factor_for_hour(hour) ==
    IF hour \in {22, 23, 0, 1, 2, 3, 4, 5} THEN 115
    ELSE IF hour \in {7, 8, 9, 16, 17, 18, 19} THEN 70
    ELSE IF hour \in {6, 10, 11, 12, 13, 14, 15, 20, 21} THEN 90
    ELSE 100

\* A quote (cost in cents, whole minutes) and the tier that produced it.
Quote(tier, cost, mins) == [tier |-> tier, cost |-> cost, mins |-> mins]
Unavailable == Quote("none", 0, 0)

\* The heuristic quote with the per-minute charge taken on the whole minutes
\* it reports.
heuristic_quote_on_reported_minutes(miles, hour) ==
    LET adj_speed == Max(800, AVG_SPEED_MPH * speed_factor_for_hour(hour))
        mins == RoundHalfEven(miles * 6000, adj_speed)
    IN  Quote("heuristic",
              FARE_BASE + FARE_BOOKING + miles * FARE_PER_MILE + mins * FARE_PER_MIN,
              mins)

\* Lines 105-109: the heuristic quote for `miles` at `hour`.
\* adj_speed is in 1/100 mph: mins = miles * 6000 / adj_speed.
heuristic_quote(miles, hour) ==
    LET adj_speed == Max(800, AVG_SPEED_MPH * speed_factor_for_hour(hour))
        base_num == (FARE_BASE + FARE_BOOKING + miles * FARE_PER_MILE) * adj_speed
        cost_num == base_num + miles * 6000 * FARE_PER_MIN
    IN  Quote("heuristic", RoundHalfEven(cost_num, adj_speed),
              RoundHalfEven(miles * 6000, adj_speed))

\* ------------------------------------------------- mapping-service response
\* What requests.get() of the Distance Matrix query can produce: a transport
\* failure, an HTTP error status, an undecodable or mis-shaped body, or the
\* first element of the first row with its status, distance (meters),
\* duration_in_traffic and duration (seconds), each possibly absent.
Resp(transport, body, status, dist, traffic, dur) ==
    [transport |-> transport, body |-> body, status |-> status,
     dist |-> dist, traffic |-> traffic, dur |-> dur]

Responses ==
    { Resp("neterr", "bad", "", None, None, None),
      Resp("timeout", "bad", "", None, None, None),
      Resp("http_err", "bad", "", None, None, None),
      Resp("ok", "bad", "", None, None, None),
      Resp("ok", "elem", "ZERO_RESULTS", None, None, None),
      Resp("ok", "elem", "OK", None, None, Some(1200)),
      Resp("ok", "elem", "OK", Some(16093), None, None),
      Resp("ok", "elem", "OK", Some(16093), None, Some(1200)),
      Resp("ok", "elem", "OK", Some(16093), Some(1510), Some(1200)) }

\* Lines 148-154: miles = dist_m / 1609.344, mins = dur_s / 60,
\* cost = base + miles * per_mile + mins * per_min + booking; in cents over
\* the common denominator 402336 (125 / 1609.344 = 31250 / 402336).
google_quote(dist_m, dur_s) ==
    Quote("google",
          RoundHalfEven((FARE_BASE + FARE_BOOKING) * 402336 + dist_m * 31250
                          + dur_s * 201168, 402336),
          RoundHalfEven(dur_s, 60))

\* estimate_via_google with a missing duration read as 0 seconds.
estimate_via_google_default_duration(resp) ==
    IF resp.transport # "ok" THEN None
    ELSE IF resp.body # "elem" THEN None
    ELSE IF resp.status # "OK" THEN None
    ELSE IF IsNone(resp.dist) THEN None
    ELSE LET d == IF ~IsNone(resp.traffic) THEN resp.traffic ELSE resp.dur
         IN  Some(google_quote(Val(resp.dist), IF IsNone(d) THEN 0 ELSE Val(d)))

\* Lines 141-154 of _estimate_via_google after the request is sent: None
\* stands for a raised exception, Some(quote) for the returned pair.
estimate_via_google(resp) ==
    IF resp.transport # "ok" THEN None              \* requests.get / raise_for_status
    ELSE IF resp.body # "elem" THEN None            \* r.json(), obj["rows"][0]["elements"][0]
    ELSE IF resp.status # "OK" THEN None            \* RuntimeError
    ELSE IF IsNone(resp.dist) THEN None             \* elem["distance"]: KeyError
    ELSE LET d == IF ~IsNone(resp.traffic) THEN resp.traffic ELSE resp.dur
         IN  IF IsNone(d) THEN None                 \* None["value"]: TypeError
             ELSE Some(google_quote(Val(resp.dist), Val(d)))

\* ------------------------------------------------------------ quota counter
\* A dict with the keys the counter uses; an absent key is None.
Dict(day, count) == [day |-> day, count |-> count]
EmptyDict == Dict(None, None)

\* The counter file: missing, truncated by open(.., "w") and not yet written,
\* or holding the JSON of a dict; ro: open(.., "w") is refused.
MissingFile == [state |-> "missing", data |-> EmptyDict, ro |-> FALSE]
TruncatedFile == [state |-> "truncated", data |-> EmptyDict, ro |-> FALSE]
JsonFile(d) == [state |-> "json", data |-> d, ro |-> FALSE]

\* Counter files in a state the program did not leave them in: no permission
\* to read, JSON that is no object (a list), an object whose "count" int()
\* refuses (a word, null) stored for `day`, and files open(.., "w") refuses.
UnreadableFile == [state |-> "unreadable", data |-> EmptyDict, ro |-> FALSE]
NonDictFile == [state |-> "nondict", data |-> EmptyDict, ro |-> FALSE]
BadCountFile(day) == [state |-> "badcount", data |-> Dict(Some(day), None), ro |-> FALSE]
ReadOnly(f) == [f EXCEPT !.ro = TRUE]

\* _load_counter: the dict in the file, {} when open() or json.load() raises.
load_counter(f) == IF f.state \in {"json", "badcount"} THEN f.data ELSE EmptyDict

\* _can_call_google_today raises: data.get on a list (AttributeError), or
\* int() of the stored count (ValueError, TypeError) once the date matches.
can_call_raises(f, day, n) ==
    /\ n > 0
    /\ \/ f.state = "nondict"
       \/ f.state = "badcount" /\ f.data.day = Some(day)

\* Lines 227-230 of _bump_google_counter raise, for the same reasons.
bump_raises(f, day) ==
    \/ f.state = "nondict"
    \/ f.state = "badcount" /\ f.data.day = Some(day)

\* int(data.get("count", 0))
count_of(d) == IF IsNone(d.count) THEN 0 ELSE Val(d.count)

\* can_call_google_today with <= for <.
can_call_google_today_le(f, day, n) ==
    IF n <= 0 THEN FALSE
    ELSE LET d == load_counter(f)
         IN  IF d.day # Some(day) THEN TRUE
             ELSE count_of(d) <= n

\* _can_call_google_today with the file, the date and the cap it reads.
can_call_google_today(f, day, n) ==
    IF n <= 0 THEN FALSE
    ELSE LET d == load_counter(f)
         IN  IF d.day # Some(day) THEN TRUE
             ELSE count_of(d) < n

\* bump_data that stamps the new date and keeps the old count.
bump_data_no_reset(f, day) ==
    LET d0 == load_counter(f)
        d1 == Dict(Some(day), d0.count)
    IN  [d1 EXCEPT !.count = Some(count_of(d1) + 1)]

\* bump_data with the date test inverted.
bump_data_inverted(f, day) ==
    LET d0 == load_counter(f)
        d1 == IF d0.day = Some(day) THEN Dict(Some(day), Some(0)) ELSE d0
    IN  [d1 EXCEPT !.count = Some(count_of(d1) + 1)]

\* Lines 227-230 of _bump_google_counter: the dict it hands to _save_counter.
bump_data(f, day) ==
    LET d0 == load_counter(f)
        d1 == IF d0.day # Some(day) THEN Dict(Some(day), Some(0)) ELSE d0
    IN  [d1 EXCEPT !.count = Some(count_of(d1) + 1)]

\* ------------------------------------------------------------- the request
\* "HH:MM" strings the requests use: hh, mm = s.strip().split(":"), int() of
\* both; None when the split or an int() raises.
ParseHHMM(s) ==
    CASE s = "08:30" -> Some(<<8, 30>>)
      [] s = " 23:05 " -> Some(<<23, 5>>)
      [] s = "25:00" -> Some(<<25, 0>>)
      [] OTHER -> None

\* _hour_from_ts(_resolve_timestamp(when_hhmm)): the hour of today at HH:MM,
\* or of now when when_hhmm is empty, unparseable or no time of day.
resolve_hour(when, nowHour) ==
    IF IsNone(when) \/ Val(when) = "" THEN nowHour
    ELSE LET hm == ParseHHMM(Val(when))
         IN  IF IsNone(hm) THEN nowHour
             ELSE IF Val(hm)[1] \in 0..23 /\ Val(hm)[2] \in 0..59 THEN Val(hm)[1]
             ELSE nowHour

Request(airport, address, miles, when, direction) ==
    [airport |-> airport, address |-> address, miles |-> miles,
     when |-> when, direction |-> direction]

Airports == {Some("san"), Some("LAX"), None}
Addresses == {None, Some(""), Some("1 Main St")}
Mileages == {None, Some(0), Some(10)}
Whens == {None, Some("08:30"), Some("25:00")}
Directions == {"to_airport", "from_airport"}
NowHours == {3, 13}

Requests ==
    { Request(a, ad, m, w, d) :
        a \in Airports, ad \in Addresses, m \in Mileages, w \in Whens, d \in Directions }

\* The requests two concurrent processes make.
ConcRequests ==
    { Request(Some("san"), Some("1 Main St"), m, None, "to_airport") : m \in {None, Some(10)} }

\* Truthiness of an Optional string: not None and not "".
Truthy(o) == ~IsNone(o) /\ Val(o) # ""

\* tier1_gate without the credential test.
tier1_gate_no_key(key, address, f, day, n) ==
    Truthy(address) /\ can_call_google_today(f, day, n)

\* tier1_gate without the quota test.
tier1_gate_no_quota(key, address, f, day, n) ==
    Truthy(key) /\ Truthy(address)

\* Line 78: api_key and address and _can_call_google_today()
tier1_gate(key, address, f, day, n) ==
    Truthy(key) /\ Truthy(address) /\ can_call_google_today(f, day, n)

\* Line 78 raises: _can_call_google_today is reached and raises.
gate_raises(key, address, f, day, n) ==
    Truthy(key) /\ Truthy(address) /\ can_call_raises(f, day, n)

\* tier2 that also wants the airport's coordinates.
tier2_needs_coords(r, hour) ==
    IF IsNone(r.miles) \/ ~airport_coords(r.airport) THEN Unavailable
    ELSE heuristic_quote(Val(r.miles), hour)

\* tier2 with `miles_override or 0`.
tier2_zero_miles(r, hour) ==
    heuristic_quote(IF IsNone(r.miles) THEN 0 ELSE Val(r.miles), hour)

\* Lines 100-109: the heuristic tier.
tier2(r, hour) ==
    IF IsNone(r.miles) THEN Unavailable
    ELSE heuristic_quote(Val(r.miles), hour)

\* ---------------------------------------------------- scraper.py: payloads
\* A JSON member read with .get: the key absent, null, or a string.
Absent == [tag |-> "absent", v |-> ""]
JNull == [tag |-> "null", v |-> ""]
JStr(s) == [tag |-> "str", v |-> s]

\* A nested JSON member ("flight", "airline", "departure", "arrival"): the
\* key absent, null, or an object with the members the service documents.
JObj(iata, name, scheduled, actual) ==
    [tag |-> "obj", iata |-> iata, name |-> name,
     scheduled |-> scheduled, actual |-> actual]
NoObj(tag) ==
    [tag |-> tag, iata |-> Absent, name |-> Absent,
     scheduled |-> Absent, actual |-> Absent]

\* One element of the response's "data" list: null, or an object.
Entry(flight, airline, departure, arrival, status) ==
    [tag |-> "obj", flight |-> flight, airline |-> airline,
     departure |-> departure, arrival |-> arrival, flight_status |-> status]
NullEntry ==
    [tag |-> "null", flight |-> NoObj("absent"), airline |-> NoObj("absent"),
     departure |-> NoObj("absent"), arrival |-> NoObj("absent"),
     flight_status |-> Absent]

\* A decoded response body: its JSON shape ("object", or "list" for any
\* other JSON value), its "data" member ("absent", "null", "list") and the
\* elements of that list.
Body(shape, data, entries) == [shape |-> shape, data |-> data, entries |-> entries]

FullEntry(id, airline, origin, destination, scheduled) ==
    Entry(JObj(JStr(id), Absent, Absent, Absent),
          JObj(Absent, JStr(airline), Absent, Absent),
          JObj(JStr(origin), Absent, JStr(scheduled), JStr(scheduled)),
          JObj(JStr(destination), Absent, Absent, Absent),
          JStr("scheduled"))
E_AA100 == FullEntry("AA100", "American", "LAX", "JFK", "2025-01-06T08:30:00+00:00")
E_WN673 == FullEntry("WN673", "Southwest", "SAN", "OAK", "2025-01-07T23:05:00Z")
\* {}: nothing supplied.
E_Sparse ==
    Entry(NoObj("absent"), NoObj("absent"), NoObj("absent"), NoObj("absent"), Absent)
\* Members supplied as null, as the service does for a flight not yet departed.
E_Nulls ==
    Entry(JObj(JNull, Absent, Absent, Absent),
          JObj(Absent, JNull, Absent, Absent),
          JObj(JStr("LAX"), Absent, JNull, JNull),
          JObj(JNull, Absent, Absent, Absent),
          JNull)
\* "flight": null.
E_NullFlight ==
    Entry(NoObj("null"), NoObj("absent"),
          JObj(JStr("LAX"), Absent, Absent, Absent), NoObj("absent"), Absent)

Bodies ==
    { Body("list", "absent", <<>>),
      Body("object", "absent", <<>>),
      Body("object", "null", <<>>),
      Body("object", "list", <<>>),
      Body("object", "list", <<E_AA100>>),
      Body("object", "list", <<E_AA100, E_WN673>>),
      Body("object", "list", <<E_Sparse>>),
      Body("object", "list", <<E_Nulls>>),
      Body("object", "list", <<E_NullFlight>>),
      Body("object", "list", <<NullEntry>>) }

\* dict.get(key, default) on a member: the default only when the key is
\* absent; a null member is None.
get(member, default) ==
    IF member.tag = "absent" THEN Some(default)
    ELSE IF member.tag = "null" THEN None
    ELSE Some(member.v)

\* The dict _extract_flight_data builds (lines 84-91).
FlightRecord(flight) ==
    [flight_number |-> get(flight.flight.iata, "Unknown"),
     origin |-> get(flight.departure.iata, "Unknown"),
     destination |-> get(flight.arrival.iata, "Unknown"),
     scheduled_departure |-> get(flight.departure.scheduled, "Unknown"),
     actual_departure |-> get(flight.departure.actual, "Unknown"),
     status |-> get(flight.flight_status, "Unknown")]

\* What a call leaves its caller with: None, a record, or an exception.
NoRecord == FlightRecord(E_Sparse)
NotFound == [kind |-> "none", rec |-> NoRecord]
Found(rec) == [kind |-> "record", rec |-> rec]
Raised == [kind |-> "raised", rec |-> NoRecord]

\* _extract_flight_data (lines 75-95). Only KeyError and IndexError are
\* caught: .get on a value that is no dict (the body, data[0], or a null
\* nested member) raises AttributeError, which leaves the function.
extract_flight_data(body) ==
    IF body.shape # "object" THEN Raised
    ELSE IF body.data # "list" \/ body.entries = <<>> THEN NotFound
    ELSE LET flight == body.entries[1] IN
         IF flight.tag = "null" THEN Raised
         ELSE IF \/ flight.flight.tag = "null"
                 \/ flight.departure.tag = "null"
                 \/ flight.arrival.tag = "null" THEN Raised
         ELSE Found(FlightRecord(flight))

\* mock_response.json: missing, not JSON, or the JSON of a saved body.
NoCache == [state |-> "missing", body |-> Body("object", "absent", <<>>)]
GarbageCache == [state |-> "garbage", body |-> Body("object", "absent", <<>>)]
Cached(body) == [state |-> "json", body |-> body]

\* _load_mock_data (lines 52-64): the flight number is not consulted.
load_mock_data(c, flight_number) ==
    IF c.state = "json" THEN extract_flight_data(c.body) ELSE NotFound

\* What requests.get, raise_for_status and response.json() come to: a
\* RequestException, an HTTP error status, a body that is no JSON, or a
\* decoded body.
Transports == {"neterr", "http_err", "bad_json", "ok"}

\* _fetch_live_data after the lookup (lines 36-50).
fetch_live_result(transport, body) ==
    IF transport = "ok" THEN extract_flight_data(body) ELSE NotFound

\* _save_mock_data (lines 66-73), reached only with a decoded body.
save_mock_data(c, transport, body) ==
    IF transport = "ok" THEN Cached(body) ELSE c

FlightNumbers == {"AA100", "WN673", "AA200", "ZZ9"}

\* ------------------------------------------------------ predict.py: values
\* A value of the flight_data dict: the key absent, None, a string, or a
\* value of another type (an int; a list, which is unhashable).
PAbsent == [tag |-> "absent", v |-> ""]
PNone == [tag |-> "none", v |-> ""]
PStr(s) == [tag |-> "str", v |-> s]
PInt == [tag |-> "int", v |-> ""]
PList == [tag |-> "list", v |-> ""]

\* flight_data: a dict read through four keys, or no dict at all (None).
FlightData(origin, destination, airline, scheduled) ==
    [tag |-> "dict", origin |-> origin, destination |-> destination,
     airline |-> airline, scheduled_departure |-> scheduled]
NoFlightData == [tag |-> "none", origin |-> PAbsent, destination |-> PAbsent,
                 airline |-> PAbsent, scheduled_departure |-> PAbsent]

\* A record of the resolver as predict_delay receives it.
as_value(rec, key) ==
    IF key \notin DOMAIN rec THEN PAbsent
    ELSE IF IsNone(rec[key]) THEN PNone
    ELSE PStr(Val(rec[key]))
as_flight_data(rec) ==
    FlightData(as_value(rec, "origin"), as_value(rec, "destination"),
               as_value(rec, "airline"), as_value(rec, "scheduled_departure"))

\* One domain of the encoders dict: the key absent, null, or a table, a set
\* of <<category, index>> pairs.
NoDomain == [tag |-> "absent", tab |-> {}]
NullDomain == [tag |-> "null", tab |-> {}]
Table(tab) == [tag |-> "table", tab |-> tab]

\* The encoders argument: None, a dict of domains, or a value that is no
\* dict (a non-empty list).
Encoders(origin, destination, airline) ==
    [tag |-> "dict", origin |-> origin, destination |-> destination,
     airline |-> airline]
NoEncoders == [tag |-> "none", origin |-> NoDomain, destination |-> NoDomain,
               airline |-> NoDomain]
ListEncoders == [tag |-> "list", origin |-> NoDomain, destination |-> NoDomain,
                 airline |-> NoDomain]
EmptyEncoders == Encoders(NoDomain, NoDomain, NoDomain)

\* A pickled artifact: a bare model, or a dict with or without 'encoders'.
BareModel == [tag |-> "bare", has_encoders |-> FALSE, encoders |-> EmptyEncoders]
Bundle(enc) == [tag |-> "bundle", has_encoders |-> TRUE, encoders |-> enc]
BundleWithoutEncoders ==
    [tag |-> "bundle", has_encoders |-> FALSE, encoders |-> EmptyEncoders]

\* load_model (lines 16-25): the encoders of a bundle, {} for a bundle
\* without the key and for a bare model.
load_model_encoders(bundle) ==
    IF bundle.tag = "bundle" /\ bundle.has_encoders THEN bundle.encoders
    ELSE EmptyEncoders

\* The tables create_encoders builds: each category numbered from 0.
OriginTable == Table({<<"SAN", 0>>, <<"LAX", 1>>})
DestinationTable == Table({<<"OAK", 0>>, <<"JFK", 1>>})
AirlineTable == Table({<<"Southwest", 0>>, <<"American", 1>>})

Artifacts ==
    { BareModel, BundleWithoutEncoders,
      Bundle(Encoders(OriginTable, DestinationTable, AirlineTable)),
      Bundle(Encoders(OriginTable, DestinationTable, NoDomain)),
      Bundle(Encoders(NoDomain, DestinationTable, AirlineTable)),
      Bundle(Encoders(NullDomain, DestinationTable, AirlineTable)) }

\* The encoders argument of a call: what load_model returned, None (the
\* parameter's default), or a value that is no dict.
EncoderArgs ==
    {NoEncoders, ListEncoders} \cup { load_model_encoders(b) : b \in Artifacts }

\* Python's truth value of the encoders argument: None and {} are false.
encoders_truthy(enc) ==
    \/ enc.tag = "list"
    \/ enc.tag = "dict" /\ \E d \in {"origin", "destination", "airline"} : enc[d].tag # "absent"

\* dict.get(key, default) of flight_data.
fd_get(value, default) == IF value.tag = "absent" THEN PStr(default) ELSE value

\* str.replace('Z', '+00:00') on the timestamps used here.
replace_Z(s) ==
    IF s = "2025-01-07T23:05:00Z" THEN "2025-01-07T23:05:00+00:00" ELSE s

\* datetime.fromisoformat: <<hour, weekday>> of a timestamp it accepts,
\* None when it raises ValueError.
fromisoformat(s) ==
    CASE s = "2025-01-06T08:30:00+00:00" -> Some(<<8, 0>>)
      [] s = "2025-01-07T23:05:00+00:00" -> Some(<<23, 1>>)
      [] s = "2025-07-13T00:00:00+00:00" -> Some(<<0, 6>>)
      [] OTHER -> None

\* parse_departure that trusts the string to be a timestamp.
parse_departure_unguarded(sd) ==
    IF sd.tag = "str" /\ ~IsNone(fromisoformat(replace_Z(sd.v)))
      THEN Val(fromisoformat(replace_Z(sd.v)))
    ELSE <<0, 0>>

\* Lines 44-56: <<hour, weekday>> of scheduled_departure. A value that is no
\* string has no .replace (AttributeError); the bare except takes both that
\* and fromisoformat's ValueError.
parse_departure(sd) ==
    IF sd = PStr("Unknown") THEN <<12, 0>>
    ELSE IF sd.tag # "str" THEN <<12, 0>>
    ELSE IF IsNone(fromisoformat(replace_Z(sd.v))) THEN <<12, 0>>
    ELSE Val(fromisoformat(replace_Z(sd.v)))

\* The strings hashed here, each standing for its bytes.
HashedStrings == <<"LAX", "SAN", "JFK", "OAK", "XXX", "American", "Southwest", "Unknown">>
StrCode(s) == CHOOSE i \in 1..Len(HashedStrings) : HashedStrings[i] = s

\* hash(value) % 1000. A string's hash is salted with the process's hash
\* seed: one value within a process, another in the next. hash(None) and
\* hash(int) are not salted.
py_hash_mod(seed, value) ==
    IF value.tag = "str" THEN (StrCode(value.v) * 131 + seed * (257 + StrCode(value.v))) % 1000
    ELSE IF value.tag = "none" THEN 136
    ELSE 5

\* dict.get(value, 0) on a domain's table.
table_get(tab, value) ==
    IF value.tag = "str" /\ \E e \in tab : e[1] = value.v
      THEN (CHOOSE e \in tab : e[1] = value.v)[2]
    ELSE 0

\* encode that numbers an unseen category 1.
encode_unseen_is_one(enc, domain, value, seed) ==
    IF encoders_truthy(enc) /\ enc.tag = "dict"
      THEN IF value.tag = "str" /\ \E e \in enc[domain].tab : e[1] = value.v
             THEN table_get(enc[domain].tab, value) ELSE 1
    ELSE py_hash_mod(seed, value)

\* Lines 59-67: the index of one category value.
encode(enc, domain, value, seed) ==
    IF encoders_truthy(enc) /\ enc.tag = "dict"
      THEN table_get(enc[domain].tab, value)
    ELSE py_hash_mod(seed, value)

\* Lines 59-67 raise: .get on a null domain (AttributeError), or an
\* unhashable value as a key or under hash() (TypeError).
encode_raises(enc, domain, value) ==
    \/ value.tag = "list"
    \/ encoders_truthy(enc) /\ enc.tag = "dict" /\ enc[domain].tag = "null"

DefaultFeatures == <<0, 0, 0, 12, 0>>

\* preprocess that lets an exception of the extraction through as None.
preprocess_unguarded(fd, enc, seed) ==
    IF fd.tag # "dict" THEN None
    ELSE IF \E d \in {"origin", "destination", "airline"} :
                encode_raises(enc, d, fd_get(fd[d], "Unknown")) THEN None
    ELSE Some(<<encode(enc, "origin", fd_get(fd.origin, "Unknown"), seed),
                encode(enc, "destination", fd_get(fd.destination, "Unknown"), seed),
                encode(enc, "airline", fd_get(fd.airline, "Unknown"), seed),
                parse_departure(fd_get(fd.scheduled_departure, "Unknown"))[1],
                parse_departure(fd_get(fd.scheduled_departure, "Unknown"))[2]>>)

\* preprocess_flight_data (lines 34-86): flight_data.get on a value that is
\* no dict, and whatever the encoding raises, end in the default vector.
preprocess_flight_data(fd, enc, seed) ==
    IF fd.tag # "dict" THEN Some(DefaultFeatures)
    ELSE IF \E d \in {"origin", "destination", "airline"} :
                encode_raises(enc, d, fd_get(fd[d], "Unknown")) THEN Some(DefaultFeatures)
    ELSE Some(<<encode(enc, "origin", fd_get(fd.origin, "Unknown"), seed),
                encode(enc, "destination", fd_get(fd.destination, "Unknown"), seed),
                encode(enc, "airline", fd_get(fd.airline, "Unknown"), seed),
                parse_departure(fd_get(fd.scheduled_departure, "Unknown"))[1],
                parse_departure(fd_get(fd.scheduled_departure, "Unknown"))[2]>>)

\* The flight_data argument of a call: records of the resolver, dicts of
\* other callers, None.
Origins == {PAbsent, PNone, PStr("LAX"), PStr("XXX"), PList}
Destinations == {PAbsent, PStr("JFK"), PStr("XXX")}
AirlineValues == {PAbsent, PStr("American"), PInt}
Departures ==
    { PAbsent, PNone, PInt, PStr("Unknown"), PStr("tomorrow"), PStr(""),
      PStr("2025-01-06T08:30:00+00:00"), PStr("2025-01-07T23:05:00Z"),
      PStr("2025-07-13T00:00:00+00:00") }
FlightDatas ==
    {NoFlightData}
    \cup { as_flight_data(FlightRecord(e)) : e \in {E_AA100, E_WN673, E_Sparse, E_Nulls} }
    \cup { FlightData(o, d, a, t) :
             o \in Origins, d \in Destinations, a \in AirlineValues, t \in Departures }

\* The model argument: None, a regressor whose predict raises, one whose
\* predict returns an empty list, or a working one.
Models == {"none", "raises", "empty", "ok"}

\* model.predict([features])[0] of the working regressor, in minutes.
regress(features) == features[4] + 3 * features[5] + (features[1] % 7)

\* predict_delay that returns None on a failure.
predict_delay_none_on_failure(model, fd, enc, seed) ==
    IF model = "ok" THEN Some(regress(Val(preprocess_flight_data(fd, enc, seed))))
    ELSE None

\* predict_delay (lines 88-105): the prediction, 0 when anything raises
\* (None has no predict, predict raises, [0] of an empty list).
predict_delay(model, fd, enc, seed) ==
    IF IsNone(preprocess_flight_data(fd, enc, seed)) THEN Some(0)
    ELSE IF model = "ok" THEN Some(regress(Val(preprocess_flight_data(fd, enc, seed))))
    ELSE Some(0)

\* ------------------------------------------------------------------- state
Procs == {"p1", "p2"}
Days == 0..MaxDay

VARIABLES
    maxCalls,   \* MAX_GOOGLE_CALLS_PER_DAY
    apiKey,     \* os.getenv("GOOGLE_MAPS_API_KEY")
    today,      \* dt.date.today()
    file,       \* COUNTER_FILE
    proc,       \* each process's request in flight: its position and locals
    issued,     \* history: mapping-service queries sent on each day
    succeeded,  \* history: queries sent on each day that were answered with a quote
    nreq,       \* history: requests started
    canRes,     \* what the last direct canCall() returned
    lastOp,     \* the last direct quota operation or date change: "none", "can", "record", "tick"
    used,       \* history: recordCall()s counted for the current date
    nops,       \* history: direct quota operations performed
    overlap,    \* history: a request began while another was in flight
    fl,         \* the flight resolver: its configuration and the call in progress
    cache,      \* mock_response.json
    pr,         \* the delay predictor: a call's arguments and results
    hq          \* the ride heuristic: a call's arguments and results

rideVars == <<maxCalls, apiKey, today, file, proc, issued, succeeded, nreq,
              canRes, lastOp, used, nops, overlap>>
flightVars == <<fl, cache>>
others == <<flightVars, pr, hq>>
vars == <<rideVars, others>>

env == <<maxCalls, apiKey>>
quota == <<canRes, lastOp, nops>>

\* No response received.
NoResp == Resp("none", "bad", "", None, None, None)

\* A process with no request in flight.
IdleProc ==
    [pc |-> "idle",
     req |-> Request(None, None, None, None, "to_airport"),
     hour |-> 0,            \* _hour_from_ts(when_ts)
     data |-> EmptyDict,    \* _bump_google_counter's data
     quote |-> Unavailable, \* (cost, mins) of _estimate_via_google
     resp |-> NoResp,       \* history: the response to the query
     result |-> Unavailable,
     nq |-> 0,              \* history: queries this request sent
     entered |-> FALSE,     \* history: the try block of tier 1 was entered
     seenFile |-> MissingFile, \* history: the counter file when the request began
     seenDay |-> 0,         \* history: the date when the request began
     qday |-> 0,            \* history: the date the query was sent
     saves |-> 0]           \* history: _save_counter calls completed

\* The counter files a run can start from: none, or today's record with a
\* count within the cap.
InitFiles ==
    {MissingFile} \cup { JsonFile(Dict(Some(0), Some(c))) : c \in 0..MaxN }

\* Counter files left by something other than the program.
FaultFiles ==
    { UnreadableFile, NonDictFile, BadCountFile(0), BadCountFile(1),
      ReadOnly(MissingFile), ReadOnly(JsonFile(Dict(Some(0), Some(0)))) }

\* The estimator's state before any request, the counter file one of `files`.
RideInit(files) ==
    /\ maxCalls \in -1..MaxN
    /\ apiKey \in {None, Some("key")}
    /\ today = 0
    /\ file \in files
    /\ count_of(load_counter(file)) <= Max(maxCalls, 0)
    /\ proc = [p \in Procs |-> IdleProc]
    /\ issued = [d \in Days |-> IF d = 0 THEN count_of(load_counter(file)) ELSE 0]
    /\ succeeded = issued
    /\ nreq = 0
    /\ canRes = FALSE
    /\ lastOp = "none"
    /\ used = count_of(load_counter(file))
    /\ nops = 0
    /\ overlap = FALSE

\* No flight lookup in progress; AVIATIONSTACK_API_KEY unset or set.
IdleFlight(key) ==
    [pc |-> "idle",
     api_key |-> key,
     mock_mode |-> FALSE,
     flight_number |-> "",
     lookups |-> 0,         \* history: lookups this call sent
     transport |-> "none",  \* history: what the lookup came to
     body |-> Body("object", "absent", <<>>), \* history: the body decoded or loaded
     out |-> NotFound]

\* A call of the predictor with its arguments; seed is the hash seed of
\* the process.
PredCall(pc, fd, enc, model, seed) ==
    [pc |-> pc, fd |-> fd, enc |-> enc, model |-> model, seed |-> seed,
     features |-> None,   \* what preprocess_flight_data returned
     out |-> None,        \* what predict_delay returned
     runs |-> 0,          \* history: process runs before this one
     prev |-> None]       \* history: the features of the run before this one
IdlePred == PredCall("idle", NoFlightData, NoEncoders, "none", 0)

\* A call of the heuristic with its arguments.
HeurCall(pc, hour, miles) ==
    [pc |-> pc, hour |-> hour, miles |-> miles,
     factor |-> 0,          \* _speed_factor_for_hour(hour), in percent
     quote |-> Unavailable] \* the heuristic quote
IdleHeur == HeurCall("idle", 0, 0)

\* The other components at rest.
OthersIdle ==
    /\ fl = IdleFlight(None)
    /\ cache = NoCache
    /\ pr = IdlePred
    /\ hq = IdleHeur

Init == RideInit(InitFiles) /\ OthersIdle

\* Return `q` from estimate_to_from_airport.
Return(p, q) == [proc[p] EXCEPT !.pc = "done", !.result = q]

\* Lines 66-78 and, when tier 1 is not entered, 100-109.
BeginReq(p, r, nowHour) ==
    /\ proc[p].pc = "idle"
    /\ nreq < MaxRequests
    /\ nreq' = nreq + 1
    /\ overlap' = (overlap \/ \E q \in Procs : proc[q].pc \notin {"idle", "done"})
    /\ LET h == resolve_hour(r.when, nowHour)
           st == [proc[p] EXCEPT !.req = r, !.hour = h,
                                 !.seenFile = file, !.seenDay = today]
       IN  proc' = [proc EXCEPT ![p] =
             IF ~airport_coords(r.airport) /\ IsNone(r.miles)
               THEN [st EXCEPT !.pc = "done", !.result = Unavailable]
             ELSE IF gate_raises(apiKey, r.address, file, today, maxCalls)
               THEN [st EXCEPT !.pc = "raised"]
             ELSE IF tier1_gate(apiKey, r.address, file, today, maxCalls)
               THEN [st EXCEPT !.pc = "tier1", !.entered = TRUE]
             ELSE [st EXCEPT !.pc = "done", !.result = tier2(r, h)]]
    /\ UNCHANGED <<others, env, today, file, issued, succeeded, quota, used>>

\* One request at a time.
Begin(p) ==
    /\ \A q \in Procs : proc[q].pc = "idle"
    /\ \E r \in Requests, h \in NowHours : BeginReq(p, r, h)

\* Requests of concurrent processes.
BeginConc(p) ==
    \E r \in ConcRequests, h \in NowHours : BeginReq(p, r, h)

\* _fmt_coords that formats whatever it is given.
fmt_coords_never_raises(airport) == FALSE

\* _fmt_coords (lines 159-163) raises ValueError: AIRPORTS.get gave None.
fmt_coords_raises(airport) == ~airport_coords(airport)

\* Lines 129-141: _fmt_coords raises on missing coordinates (caught at line
\* 96, then tier 2); otherwise requests.get sends the query.
Issue(p) ==
    /\ proc[p].pc = "tier1"
    /\ IF fmt_coords_raises(proc[p].req.airport)
         THEN /\ proc' = [proc EXCEPT ![p] =
                    Return(p, tier2(proc[p].req, proc[p].hour))]
              /\ UNCHANGED issued
         ELSE /\ proc' = [proc EXCEPT ![p] =
                    [@ EXCEPT !.pc = "await", !.nq = @ + 1, !.qday = today]]
              /\ issued' = [issued EXCEPT ![today] = @ + 1]
    /\ UNCHANGED <<others, env, today, file, succeeded, nreq, quota, used, overlap>>

\* Lines 141-154 and 96-109: the response arrives (or the 10 s timeout ends the
\* wait); a failure falls through to tier 2.
Respond(p) ==
    /\ proc[p].pc = "await"
    /\ \E resp \in Responses :
         LET got == estimate_via_google(resp)
         IN  IF IsNone(got)
               THEN /\ proc' = [proc EXCEPT ![p] =
                          [Return(p, tier2(proc[p].req, proc[p].hour)) EXCEPT !.resp = resp]]
                    /\ UNCHANGED succeeded
               ELSE /\ proc' = [proc EXCEPT ![p] =
                          [@ EXCEPT !.pc = "bump", !.quote = Val(got), !.resp = resp]]
                    /\ succeeded' = [succeeded EXCEPT ![proc[p].qday] = @ + 1]
    /\ UNCHANGED <<others, env, today, file, issued, nreq, quota, used, overlap>>

\* Lines 227-230: _bump_google_counter reads the file and the date; what it
\* raises is caught at line 96.
BumpLoad(p) ==
    /\ proc[p].pc = "bump"
    /\ proc' = [proc EXCEPT ![p] =
          IF bump_raises(file, today)
            THEN Return(p, tier2(proc[p].req, proc[p].hour))
            ELSE [@ EXCEPT !.pc = "save", !.data = bump_data(file, today)]]
    /\ UNCHANGED <<others, env, today, file, issued, succeeded, nreq, quota, used, overlap>>

\* Line 215: open(COUNTER_FILE, "w") truncates the file, or is refused and
\* raises (caught at line 96).
BumpTruncate(p) ==
    /\ proc[p].pc = "save"
    /\ IF file.ro
         THEN /\ proc' = [proc EXCEPT ![p] = Return(p, tier2(proc[p].req, proc[p].hour))]
              /\ UNCHANGED file
         ELSE /\ file' = TruncatedFile
              /\ proc' = [proc EXCEPT ![p] = [@ EXCEPT !.pc = "write"]]
    /\ UNCHANGED <<others, env, today, issued, succeeded, nreq, quota, used, overlap>>

\* Line 216 and line 95: json.dump writes the dict; the Google quote is returned.
BumpWrite(p) ==
    /\ proc[p].pc = "write"
    /\ file' = JsonFile(proc[p].data)
    /\ proc' = [proc EXCEPT ![p] =
          [Return(p, proc[p].quote) EXCEPT !.saves = @ + 1]]
    /\ used' = IF proc[p].data.day = Some(today) THEN used + 1 ELSE used
    /\ UNCHANGED <<others, env, today, issued, succeeded, nreq, quota, overlap>>

\* The caller takes the result, or the exception; the process is free for the
\* next request.
Finish(p) ==
    /\ proc[p].pc \in {"done", "raised"}
    /\ proc' = [proc EXCEPT ![p] = IdleProc]
    /\ UNCHANGED <<others, env, today, file, issued, succeeded, nreq, quota, used, overlap>>

\* Midnight.
Tick ==
    /\ today < MaxDay
    /\ today' = today + 1
    /\ used' = 0
    /\ lastOp' = "tick"
    /\ UNCHANGED <<others, env, file, proc, issued, succeeded, nreq, canRes, nops, overlap>>

Step(p) ==
    \/ Issue(p)
    \/ Respond(p)
    \/ BumpLoad(p)
    \/ BumpTruncate(p)
    \/ BumpWrite(p)
    \/ Finish(p)

\* Ride requests processed one at a time.
Next ==
    \/ \E p \in Procs : Begin(p)
    \/ \E p \in Procs : Step(p)
    \/ Tick

Spec == Init /\ [][Next]_vars

\* Ride requests of two concurrent processes on one counter file.
ConcNext ==
    \/ \E p \in Procs : BeginConc(p)
    \/ \E p \in Procs : Step(p)

ConcSpec == Init /\ [][ConcNext]_vars

\* Ride requests one at a time on a counter file found in a faulty state.
FaultInit == RideInit(FaultFiles) /\ maxCalls >= 1 /\ OthersIdle

FaultSpec == FaultInit /\ [][Next]_vars

\* ------------------------------------------- the quota governor on its own
\* canCall(): _can_call_google_today, lines 218-224.
QCanCall ==
    /\ nops < MaxOps
    /\ canRes' = can_call_google_today(file, today, maxCalls)
    /\ lastOp' = "can"
    /\ nops' = nops + 1
    /\ UNCHANGED <<others, env, today, file, proc, issued, succeeded, nreq, used, overlap>>

\* recordCall(): _bump_google_counter, lines 226-231, with its _save_counter.
QRecordCall ==
    /\ nops < MaxOps
    /\ file' = JsonFile(bump_data(file, today))
    /\ used' = used + 1
    /\ lastOp' = "record"
    /\ nops' = nops + 1
    /\ UNCHANGED <<others, env, today, proc, issued, succeeded, nreq, canRes, overlap>>

\* A single caller of canCall() and recordCall(), and the calendar.
QuotaNext == QCanCall \/ QRecordCall \/ Tick

QuotaSpec == Init /\ [][QuotaNext]_vars

\* Today's recorded usage: the stored count if the stored date is `day`, else 0.
TodayUsage(f, day) ==
    LET d == load_counter(f)
    IN  IF d.day = Some(day) THEN count_of(d) ELSE 0

\* ------------------------------------------------------- scraper.py: calls
\* A lookup that is sent again after a failure.
after_lookup_retry(transport) == IF transport = "ok" THEN "done" ELSE "lookup"

\* _fetch_live_data leaves through return in every branch that follows the
\* lookup (lines 43-50): nothing sends the request again.
after_lookup(transport) == "done"

\* scrape_flight_info(flight_number, mock_mode) (lines 97-100, 11-24): the
\* constructor raises ValueError in live mode without a key; mock mode reads
\* the file; live mode goes on to the lookup.
FlBegin(mock, id) ==
    /\ fl.pc = "idle"
    /\ \A q \in Procs : proc[q].pc = "idle"
    /\ fl' = IF mock
               THEN [fl EXCEPT !.pc = "done", !.mock_mode = TRUE, !.flight_number = id,
                               !.lookups = 0, !.transport = "none",
                               !.body = cache.body,
                               !.out = load_mock_data(cache, id)]
             ELSE IF ~Truthy(fl.api_key)
               THEN [fl EXCEPT !.pc = "done", !.mock_mode = FALSE, !.flight_number = id,
                               !.lookups = 0, !.transport = "none",
                               !.out = [kind |-> "no_key", rec |-> NoRecord]]
             ELSE [fl EXCEPT !.pc = "lookup", !.mock_mode = FALSE, !.flight_number = id,
                             !.lookups = 0, !.transport = "none", !.out = NotFound]
    /\ UNCHANGED <<rideVars, cache, pr, hq>>

\* Line 35: requests.get sends the lookup.
FlLookup ==
    /\ fl.pc = "lookup"
    /\ fl' = [fl EXCEPT !.pc = "respond", !.lookups = @ + 1]
    /\ UNCHANGED <<rideVars, cache, pr, hq>>

\* Lines 35-50: the lookup returns or raises; a decoded body is saved to the
\* mock file and then extracted.
FlRespond(transport, body) ==
    /\ fl.pc = "respond"
    /\ fl' = [fl EXCEPT !.pc = after_lookup(transport), !.transport = transport,
                        !.body = body,
                        !.out = fetch_live_result(transport, body)]
    /\ cache' = save_mock_data(cache, transport, body)
    /\ UNCHANGED <<rideVars, pr, hq>>

\* The caller takes the result; the environment may set or unset the key
\* before the next fetcher is built.
FlFinish(key) ==
    /\ fl.pc = "done"
    /\ fl' = IdleFlight(key)
    /\ UNCHANGED <<rideVars, cache, pr, hq>>

FlNext ==
    \/ \E mock \in BOOLEAN, id \in FlightNumbers : FlBegin(mock, id)
    \/ FlLookup
    \/ \E t \in Transports, b \in Bodies : FlRespond(t, b)
    \/ \E key \in {None, Some("key")} : FlFinish(key)

\* The process of the command-line run.
AppProc == "p1"

\* A ride request of the command-line run, which resolves the flight first.
AppBegin(p) ==
    /\ fl.pc = "idle"
    /\ \A q \in Procs : proc[q].pc = "idle"
    /\ \E r \in ConcRequests, h \in NowHours : BeginReq(p, r, h)

\* The command-line run: flight resolutions and ride requests, one at a time.
AppNext ==
    \/ FlNext
    \/ AppBegin(AppProc)
    \/ Step(AppProc)

AppInit ==
    /\ RideInit({MissingFile})
    /\ maxCalls = 1
    /\ fl \in {IdleFlight(None), IdleFlight(Some("key"))}
    /\ cache \in {NoCache, GarbageCache, Cached(Body("object", "list", <<E_AA100, E_WN673>>))}
    /\ pr = IdlePred
    /\ hq = IdleHeur

AppSpec == AppInit /\ [][AppNext]_vars

\* The command-line run with its scheduling: the process takes each step of
\* its own, and requests.get(.., timeout=10) of the ride estimator returns or
\* raises within the timeout. The lookup of line 35 of scraper.py passes no
\* timeout: it returns only if the service answers or the connection fails.
LiveSpec ==
    AppInit /\ [][AppNext]_vars /\ WF_vars(Step(AppProc)) /\ WF_vars(FlLookup)

\* ------------------------------------------------------- predict.py: calls
\* preprocess_flight_data(flight_data, encoders).
Preprocess ==
    /\ pr.pc = "start"
    /\ pr' = [pr EXCEPT !.pc = "encoded",
                        !.features = preprocess_flight_data(pr.fd, pr.enc, pr.seed)]
    /\ UNCHANGED <<rideVars, flightVars, hq>>

\* predict_delay(model, flight_data, encoders).
Predict ==
    /\ pr.pc \in {"start", "encoded"}
    /\ pr' = [pr EXCEPT !.pc = "done",
                        !.features = preprocess_flight_data(pr.fd, pr.enc, pr.seed),
                        !.out = predict_delay(pr.model, pr.fd, pr.enc, pr.seed)]
    /\ UNCHANGED <<rideVars, flightVars, hq>>

\* The predictor is run again, in a new process, on the same arguments:
\* Python salts str hashes with a seed drawn when the process starts.
Rerun(seed) ==
    /\ pr.pc \in {"encoded", "done"}
    /\ pr.runs < MaxRuns
    /\ pr' = [pr EXCEPT !.pc = "start", !.seed = seed, !.features = None,
                        !.out = None, !.runs = @ + 1, !.prev = pr.features]
    /\ UNCHANGED <<rideVars, flightVars, hq>>

PredNext ==
    \/ Preprocess
    \/ Predict
    \/ \E seed \in 0..MaxSeed : Rerun(seed)

\* The rest of the program at rest.
RideIdle == RideInit({MissingFile}) /\ maxCalls = 1 /\ apiKey = None

\* Calls of the predictor on every combination of arguments.
PredInit ==
    /\ RideIdle
    /\ fl = IdleFlight(None)
    /\ cache = NoCache
    /\ hq = IdleHeur
    /\ pr \in { PredCall("start", fd, enc, m, seed) :
                   fd \in FlightDatas, enc \in EncoderArgs, m \in Models,
                   seed \in 0..MaxSeed }

PredSpec == PredInit /\ [][PredNext]_vars

\* --------------------------------------------------- rideshare.py: heuristic
HeurHours == -1..24
\* miles_override is any float the caller passes; nothing rejects a negative one.
HeurMiles == {-10, 0, 1, 10, 25}

\* _speed_factor_for_hour(hour).
SpeedFactor ==
    /\ hq.pc = "start"
    /\ hq' = [hq EXCEPT !.pc = "factored", !.factor = speed_factor_for_hour(hq.hour)]
    /\ UNCHANGED <<rideVars, flightVars, pr>>

\* Lines 105-109 on miles and hour.
HeurQuote ==
    /\ hq.pc = "factored"
    /\ hq' = [hq EXCEPT !.pc = "done", !.quote = heuristic_quote(hq.miles, hq.hour)]
    /\ UNCHANGED <<rideVars, flightVars, pr>>

HeurNext == SpeedFactor \/ HeurQuote

HeurInit ==
    /\ RideIdle
    /\ fl = IdleFlight(None)
    /\ cache = NoCache
    /\ pr = IdlePred
    /\ hq \in { HeurCall("start", h, m) : h \in HeurHours, m \in HeurMiles }

HeurSpec == HeurInit /\ [][HeurNext]_vars

\* ------------------------------------------------------------------ claims
Done(p) == proc[p].pc = "done"

\* A credential is configured and a non-empty address was provided.
GateInputs(p) == Truthy(apiKey) /\ Truthy(proc[p].req.address)

\* canCall() at the time of the request.
QuotaOpen(p) == can_call_google_today(proc[p].seenFile, proc[p].seenDay, maxCalls)

\* The request is past line 78 with the condition true.
InTier1(p) == proc[p].pc \in {"tier1", "await", "bump", "save", "write"}

\* HTTP OK, element status "OK", distance and a duration present.
SuccessResp(r) ==
    /\ r.transport = "ok"
    /\ r.body = "elem"
    /\ r.status = "OK"
    /\ ~IsNone(r.dist)
    /\ (~IsNone(r.traffic) \/ ~IsNone(r.dur))

\* What the heuristic tier owes the request: a quote iff mileage was supplied.
Tier2Kind(p) == IF IsNone(proc[p].req.miles) THEN "none" ELSE "heuristic"

\* C1: tier 1 is entered, and a mapping-service query sent, only if a
\* credential is configured, a non-empty address was provided and canCall()
\* was true when the request was made.
C1_Tier1OnlyWhenGated ==
    \A p \in Procs :
        (InTier1(p) \/ proc[p].nq > 0 \/ proc[p].entered) =>
            GateInputs(p) /\ QuotaOpen(p)

\* A query is in flight.
C1_Witness == \E p \in Procs : proc[p].pc = "await" /\ proc[p].nq = 1

\* C2 as stated: for every finished request, (a) address + credential + quota
\* available: tier 1 was attempted; (b) the same with canCall() false: tier 2
\* directly, no query; (c) neither address nor mileage: unavailable.
C2_TierSelectionAnyAirport ==
    \A p \in Procs : Done(p) =>
        /\ (GateInputs(p) /\ QuotaOpen(p)) => proc[p].entered
        /\ (GateInputs(p) /\ ~QuotaOpen(p)) =>
              (~proc[p].entered /\ proc[p].nq = 0 /\ proc[p].result.tier = Tier2Kind(p))
        /\ (~Truthy(proc[p].req.address) /\ IsNone(proc[p].req.miles)) =>
              proc[p].result = Unavailable

\* Lines 68-71: an unknown airport without mileage returns before line 78.
EarlyOut(p) == ~airport_coords(proc[p].req.airport) /\ IsNone(proc[p].req.miles)

\* C2, amended: (a) holds unless the airport code is unknown and no mileage
\* was supplied, when the request is answered "unavailable" before the quota
\* is consulted; (b) and (c) as stated.
C2_TierSelection ==
    \A p \in Procs : Done(p) =>
        /\ (GateInputs(p) /\ QuotaOpen(p) /\ ~EarlyOut(p)) => proc[p].entered
        /\ (GateInputs(p) /\ QuotaOpen(p) /\ EarlyOut(p)) =>
              (~proc[p].entered /\ proc[p].nq = 0 /\ proc[p].result = Unavailable)
        /\ (GateInputs(p) /\ ~QuotaOpen(p)) =>
              (~proc[p].entered /\ proc[p].nq = 0 /\ proc[p].result.tier = Tier2Kind(p))
        /\ (~Truthy(proc[p].req.address) /\ IsNone(proc[p].req.miles)) =>
              proc[p].result = Unavailable

\* Quota exhausted: the heuristic quote without a query.
C2_Witness ==
    \E p \in Procs :
        /\ Done(p) /\ GateInputs(p) /\ ~QuotaOpen(p) /\ maxCalls > 0
        /\ proc[p].nq = 0 /\ proc[p].result.tier = "heuristic"

C4_FailureNotRecorded ==
    \A p \in Procs : (Done(p) /\ proc[p].entered /\ ~SuccessResp(proc[p].resp)) =>
        /\ proc[p].result.tier = Tier2Kind(p)
        /\ proc[p].saves = 0
        /\ file = proc[p].seenFile

\* A query answered without a duration: tier 2 answers, nothing is recorded.
C4_Witness ==
    \E p \in Procs :
        /\ Done(p) /\ proc[p].entered /\ proc[p].nq = 1
        /\ proc[p].resp.status = "OK" /\ ~SuccessResp(proc[p].resp)
        /\ proc[p].result.tier = "heuristic"
        /\ file = proc[p].seenFile

\* C5: with a mileage override the answer is a quote, never "unavailable".
C5_MileageAlwaysQuoted ==
    \A p \in Procs : (Done(p) /\ ~IsNone(proc[p].req.miles)) =>
        proc[p].result.tier \in {"google", "heuristic"}

\* Unknown airport, tier 1 entered and failed on the missing coordinates.
C5_Witness ==
    \E p \in Procs :
        /\ Done(p) /\ ~IsNone(proc[p].req.miles)
        /\ ~airport_coords(proc[p].req.airport)
        /\ proc[p].entered /\ proc[p].result.tier = "heuristic"

\* C6: without mileage and without a successful query the answer is
\* "unavailable", never a number.
C6_NoMileageNoQuote ==
    \A p \in Procs :
        (Done(p) /\ IsNone(proc[p].req.miles) /\ ~SuccessResp(proc[p].resp)) =>
            proc[p].result = Unavailable

\* Tier 1 was entered and its query failed; no mileage.
C6_Witness ==
    \E p \in Procs :
        /\ Done(p) /\ IsNone(proc[p].req.miles)
        /\ proc[p].nq = 1 /\ ~SuccessResp(proc[p].resp)
        /\ proc[p].result = Unavailable

\* C7: on every day at most N queries are sent to the mapping service.
C7_CallsPerDayWithinCap ==
    \A d \in Days : issued[d] <= Max(maxCalls, 0)

\* A day on which more queries were sent than the cap.
C7_Overrun == \E d \in Days : maxCalls > 0 /\ issued[d] > maxCalls

\* C8: canCall() is true exactly when N > 0 and today's recorded usage is
\* below N, the usage being the recordCall()s of the current date (0 after a
\* date change); with N <= 0 it is false in every state.
C8_CanCallIffUnderCap ==
    /\ lastOp = "can" => (canRes <=> (maxCalls > 0 /\ used < maxCalls))
    /\ TodayUsage(file, today) = used
    /\ maxCalls <= 0 => ~can_call_google_today(file, today, maxCalls)

\* N = 2 was used up on day 0; after the date change canCall() is true again.
C8_Witness ==
    /\ maxCalls = 2 /\ today = 1 /\ nops >= 3
    /\ file = JsonFile(Dict(Some(0), Some(2)))
    /\ lastOp = "can" /\ canRes /\ used = 0

\* C9: every recordCall() stores the current date with today's usage one
\* higher than before, the usage counting from 0 when the stored date was
\* another one; while the date stays the same the usage never goes down.
C9_RecordCallIncrements ==
    [][ /\ (lastOp' = "record" /\ nops' = nops + 1) =>
              /\ file'.state = "json"
              /\ file'.data.day = Some(today)
              /\ TodayUsage(file', today) = TodayUsage(file, today) + 1
              /\ load_counter(file).day # Some(today) => file'.data.count = Some(1)
        /\ today' = today => TodayUsage(file', today') >= TodayUsage(file, today)
      ]_vars

\* The first recordCall() after a date change: the count starts again at 1.
C9_Witness ==
    /\ today = 1 /\ lastOp = "record" /\ nops >= 2
    /\ file = JsonFile(Dict(Some(1), Some(1)))

\* C10: the cap is exceeded by answered queries, or a completed recordCall()
\* is missing from the stored count, only in a run where requests overlapped;
\* that such a run exists is C10_Witness.
C10_SoftOnlyUnderConcurrency ==
    ( \/ \E d \in Days : succeeded[d] > Max(maxCalls, 0)
      \/ (file.state = "json" /\ TodayUsage(file, today) < used) ) => overlap

\* Two overlapping requests: more than N answered queries in one day and a
\* stored count below the number of recordCall()s completed that day.
C10_Witness ==
    /\ maxCalls >= 1
    /\ succeeded[today] > maxCalls
    /\ file.state = "json" /\ TodayUsage(file, today) < used
    /\ \A p \in Procs : proc[p].pc \in {"idle", "done"}

\* C11: estimate_to_from_airport never raises, whatever the inputs, the
\* mapping service's answer and the state of the counter file.
C11_NeverRaises == \A p \in Procs : proc[p].pc # "raised"

\* C12: a ride request sends at most one mapping-service query and a flight
\* resolution at most one lookup; a failed external call is not repeated, the
\* request falls to the next tier (the heuristic quote / not-found).
C12_AtMostOneExternalCall ==
    /\ \A p \in Procs :
         /\ proc[p].nq <= 1
         /\ Done(p) /\ proc[p].nq = 1 /\ ~SuccessResp(proc[p].resp)
              => proc[p].result = tier2(proc[p].req, proc[p].hour)
    /\ fl.lookups <= 1
    /\ fl.pc = "done" /\ fl.lookups = 1 /\ fl.transport # "ok" => fl.out = NotFound

\* A ride request whose one query failed, then a live lookup that failed.
C12_Witness ==
    /\ nreq = 1 /\ issued[0] = 1 /\ succeeded[0] = 0
    /\ fl.pc = "done" /\ fl.lookups = 1 /\ fl.transport = "neterr"
    /\ fl.out = NotFound

\* The alphabetic carrier prefix of a flight identifier.
carrier_prefix(id) ==
    CASE id \in {"AA100", "AA200"} -> "AA"
      [] id = "WN673" -> "WN"
      [] id = "ZZ9" -> "ZZ"
      [] OTHER -> ""

\* The cached records a mock-mode call found, and those among them that are
\* keyed by `id` or share its carrier prefix.
CachedEntries == IF fl.body.shape = "object" THEN fl.body.entries ELSE <<>>
ExactMatches(id) ==
    { i \in DOMAIN CachedEntries : CachedEntries[i].flight.iata = JStr(id) }
PrefixMatches(id) ==
    { i \in DOMAIN CachedEntries :
        /\ CachedEntries[i].flight.iata.tag = "str"
        /\ carrier_prefix(CachedEntries[i].flight.iata.v) = carrier_prefix(id) }
RecordsOf(is) == { Found(FlightRecord(CachedEntries[i])) : i \in is }

\* C13: in mock mode the resolver returns the cached record keyed by the
\* identifier; failing that a record with the identifier's carrier prefix;
\* failing that some cached record; not-found only when the cache is empty.
C13_MockResolutionOrder ==
    fl.pc = "done" /\ fl.mock_mode =>
        LET id == fl.flight_number IN
        IF ExactMatches(id) # {} THEN fl.out \in RecordsOf(ExactMatches(id))
        ELSE IF PrefixMatches(id) # {} THEN fl.out \in RecordsOf(PrefixMatches(id))
        ELSE IF CachedEntries # <<>> THEN fl.out.kind = "record"
        ELSE fl.out = NotFound

\* C14: in live mode the resolver sends exactly one lookup and never raises:
\* a transport failure, an undecodable body, or a body of an unexpected shape
\* (no object, null nested members) ends in not-found or a record.
C14_LiveAbsorbsFailures ==
    fl.pc = "done" /\ ~fl.mock_mode /\ fl.out.kind # "no_key" =>
        /\ fl.lookups = 1
        /\ fl.out.kind # "raised"
        /\ fl.transport # "ok" => fl.out = NotFound

\* The fields every flight record is to carry.
RequiredFields ==
    {"flight_number", "airline", "origin", "destination", "scheduled_departure"}

\* C15: a record the resolver returns has each of flight_number, airline,
\* origin, destination and scheduled_departure, none of them null: what the
\* response does not supply is "Unknown".
C15_RecordComplete ==
    fl.pc = "done" /\ fl.out.kind = "record" =>
        \A k \in RequiredFields :
            k \in DOMAIN fl.out.rec /\ fl.out.rec[k] # None

\* A call of preprocess_flight_data has returned.
Encoded == pr.pc \in {"encoded", "done"}

CategoryDomains == <<"origin", "destination", "airline">>

\* The category value the record holds for a domain, and its feature.
CategoryValue(i) == fd_get(pr.fd[CategoryDomains[i]], "Unknown")
CategoryFeature(i) == Val(pr.features)[i]

\* The value is no key of the domain's table.
Unseen(i) ==
    ~(/\ CategoryValue(i).tag = "str"
      /\ \E e \in pr.enc[CategoryDomains[i]].tab : e[1] = CategoryValue(i).v)

\* The extraction raised: flight_data is no dict, a value is unhashable, or
\* a domain of the table is null.
ExtractionRaised ==
    \/ pr.fd.tag # "dict"
    \/ \E i \in 1..3 : CategoryValue(i).tag = "list"
    \/ pr.enc.tag = "dict" /\ pr.enc # EmptyEncoders
         /\ \E i \in 1..3 : pr.enc[CategoryDomains[i]].tag = "null"

\* C16 as stated: with any supplied table, the empty one included, a value
\* absent from the table is encoded as 0.
C16_UnseenIsZeroAnyTable ==
    Encoded /\ pr.fd.tag = "dict" /\ pr.enc.tag = "dict" =>
        \A i \in 1..3 : Unseen(i) => CategoryFeature(i) = 0

\* C16: with a supplied table that is not empty (one lacking a domain
\* included), a value absent from the table is encoded as 0; the empty
\* table counts as no table, and the value gets its hash pseudo-index.
C16_UnseenIsZero ==
    Encoded /\ pr.fd.tag = "dict" /\ pr.enc.tag = "dict" =>
        IF pr.enc # EmptyEncoders
          THEN \A i \in 1..3 : Unseen(i) => CategoryFeature(i) = 0
        ELSE ~ExtractionRaised =>
               \A i \in 1..3 : CategoryFeature(i) = py_hash_mod(pr.seed, CategoryValue(i))

\* A table without the airline domain; origin XXX is in no table, JFK is.
C16_Witness ==
    /\ Encoded
    /\ pr.enc = Encoders(OriginTable, DestinationTable, NoDomain)
    /\ pr.fd.origin = PStr("XXX") /\ pr.fd.destination = PStr("JFK")
    /\ pr.fd.airline = PStr("American")
    /\ CategoryFeature(1) = 0 /\ CategoryFeature(2) = 1 /\ CategoryFeature(3) = 0

\* The timestamps among the departure values that are ISO-8601.
IsoTimestamps ==
    {"2025-01-06T08:30:00+00:00", "2025-01-07T23:05:00Z", "2025-07-13T00:00:00+00:00"}

\* scheduled_departure is missing or malformed.
MalformedDeparture ==
    LET sd == pr.fd.scheduled_departure
    IN  sd.tag # "str" \/ sd.v \notin IsoTimestamps

\* C17: a scheduled_departure that is absent, "Unknown", null, no string or
\* no ISO-8601 timestamp yields hour 12 and weekday 0, and the three category
\* indices are those of the record.
C17_MalformedDepartureDefaults ==
    Encoded /\ pr.fd.tag = "dict" /\ MalformedDeparture =>
        /\ Val(pr.features)[4] = 12
        /\ Val(pr.features)[5] = 0
        /\ ~ExtractionRaised =>
             \A i \in 1..3 :
                CategoryFeature(i) = encode(pr.enc, CategoryDomains[i], CategoryValue(i), pr.seed)

\* A departure that is no timestamp, with categories the tables know.
C17_Witness ==
    /\ pr.pc = "encoded"
    /\ pr.fd = FlightData(PStr("LAX"), PStr("JFK"), PStr("American"), PStr("tomorrow"))
    /\ pr.enc = Encoders(OriginTable, DestinationTable, AirlineTable)
    /\ pr.features = Some(<<1, 1, 1, 12, 0>>)

C19_PredictTotal ==
    pr.pc = "done" =>
        /\ pr.out # None
        /\ Val(pr.out) \in Int
        /\ pr.model # "ok" => Val(pr.out) = 0

\* A record of "Unknown" fields, no encoders, a model whose predict raises.
C19_Witness ==
    /\ pr.pc = "done"
    /\ pr.fd = as_flight_data(FlightRecord(E_Sparse))
    /\ pr.enc = NoEncoders
    /\ pr.model = "raises"
    /\ pr.out = Some(0)

\* The table of speed factors, in percent.
SpeedTable(h) ==
    CASE h \in (22..23) \cup (0..5) -> 115
      [] h \in (7..9) \cup (16..19) -> 70
      [] h \in {6} \cup (10..15) \cup (20..21) -> 90
      [] OTHER -> 100

\* C20: _speed_factor_for_hour gives 1.15 for hours 22, 23, 0..5, 0.70 for
\* 7..9 and 16..19, 0.90 for 6, 10..15, 20, 21, and 1.00 for any other hour.
C20_SpeedFactorTable ==
    hq.pc \in {"factored", "done"} => hq.factor = SpeedTable(hq.hour)

\* The factor of the morning peak.
C20_Witness == hq.pc = "factored" /\ hq.hour = 8 /\ hq.factor = 70

\* The heuristic has quoted 10 miles at speed factor 1.0.
TenMilesAtFactorOne == hq.pc = "done" /\ hq.miles = 10 /\ hq.factor = 100

C22_QuotesNonNegative ==
    /\ \A p \in Procs :
         Done(p) /\ proc[p].result # Unavailable =>
            /\ proc[p].result.cost >= 0
            /\ proc[p].result.mins \in Nat
    /\ hq.pc = "done" => hq.quote.cost >= 0 /\ hq.quote.mins \in Nat

\* No encoder table is supplied: the argument is None or empty.
NoTableSupplied == pr.enc \in {NoEncoders, EmptyEncoders}

\* C23: without an encoder table each category index is in 0..999 and is the
\* same for the same string on every invocation, a later process run of the
\* predictor included.
C23_HashIndexDeterministic ==
    Encoded /\ NoTableSupplied /\ pr.runs >= 1 =>
        /\ \A i \in 1..3 : CategoryFeature(i) \in 0..999
        /\ \A i \in 1..3 : CategoryFeature(i) = Val(pr.prev)[i]

\* A ride request, once begun, returns.
RideReturns == proc[AppProc].pc # "idle" ~> proc[AppProc].pc = "done"

\* A flight resolution, once begun, returns.
FlightReturns == fl.pc # "idle" ~> fl.pc = "done"

\* C24: every ride request and every flight resolution eventually returns,
\* even if the external service never responds: each external call ends
\* within a bounded timeout and the request falls to its fallback.
C24_EveryRequestReturns == RideReturns /\ FlightReturns

\* The request of p names an airport that is not in AIRPORTS.
UnknownAirport(p) == proc[p].pc # "idle" /\ ~airport_coords(proc[p].req.airport)

\* C25: a request for an unknown airport sends no mapping-service query and
\* leaves the counter file as it found it; without mileage it returns
\* "unavailable" before the quota is consulted, with mileage it ends in the
\* heuristic quote.
C25_UnknownAirportNoQuery ==
    \A p \in Procs : UnknownAirport(p) =>
        /\ proc[p].nq = 0
        /\ proc[p].pc \notin {"await", "bump", "save", "write"}
        /\ proc[p].saves = 0
        /\ file = proc[p].seenFile
        /\ IsNone(proc[p].req.miles) => ~proc[p].entered /\ proc[p].pc = "done"
        /\ Done(p) => proc[p].result = tier2(proc[p].req, proc[p].hour)

\* Tier 1 was entered for an unknown airport with mileage, sent nothing and
\* ended in the heuristic quote.
C25_Witness ==
    \E p \in Procs :
        /\ Done(p)
        /\ proc[p].req.airport = Some("LAX")
        /\ proc[p].req.miles = Some(10)
        /\ proc[p].entered
        /\ proc[p].nq = 0
        /\ proc[p].result.tier = "heuristic"
        /\ file = proc[p].seenFile

====
